---- MODULE Spec2Model ----
(***************************************************************************)
(* Model of the movie recommender's core: the TMDb metadata client         *)
(* (src/tmdb_client.py: TTL cache, bounded retry, result ranking, popular  *)
(* pool pagination) and the recommendation engine                          *)
(* (src/recommendation_engine.py).                                         *)
(***************************************************************************)
EXTENDS Integers, Sequences, FiniteSets, TLC

(***************************************************************************)
(* Program constants (src/config.py).                                      *)
(***************************************************************************)
CACHE_TTL == 86400
MAX_RETRIES == 3
RETRY_DELAYS == <<1, 2, 4>>

(***************************************************************************)
(* Bounds of the model.                                                    *)
(***************************************************************************)
NumThreads == 2      \* callers of the concurrent specification
MaxCalls == 2        \* _make_request calls per run of Spec
ConcCalls == 2       \* _make_request calls per run of ConcSpec
MaxTicks == 1        \* clock advances between steps
NumBodies == 2       \* distinct payloads the provider answers with

Threads == 1..NumThreads
Bodies == {"payload" \o ToString(i) : i \in 1..NumBodies}

\* The value None, and the marker of a call that ended by raising.
None == "None"
Raised == "KeyError"

(***************************************************************************)
(* Requests: (endpoint, params) as the client's methods build them.        *)
(***************************************************************************)
Requests ==
    { [endpoint |-> "search/movie", params |-> "{'query': 'Heat'}"],
      [endpoint |-> "movie/949", params |-> "None"] }

\* cache_key = f"{endpoint}:{str(params)}"
CacheKey(r) == <<r.endpoint, ":", r.params>>

(***************************************************************************)
(* What one requests.get can end in: an HTTP status or an exception.       *)
(***************************************************************************)
Statuses == {"200", "400", "401", "404", "429", "500", "Timeout", "RequestException"}

(***************************************************************************)
(* Python dict operations.                                                 *)
(***************************************************************************)
DictSet(d, k, v) == [x \in (DOMAIN d) \cup {k} |-> IF x = k THEN v ELSE d[x]]
DictDel(d, k) == [x \in (DOMAIN d) \ {k} |-> d[x]]
EmptyDict == [x \in {} |-> None]

VARIABLES
    cache,             \* TMDbClient.cache: key -> payload
    cache_timestamps,  \* TMDbClient.cache_timestamps: key -> time of the write
    now,               \* time.time()
    pc,                \* per caller: the line of _make_request it is at
    req,               \* per caller: the request of its call
    attempt,           \* per caller: the loop variable of the retry loop
    data,              \* per caller: response.json() of its successful attempt
    t_check,           \* per caller: the time.time() read at the TTL check
    snap,              \* per caller: the entry of its key when the call began
    result,            \* per caller: what its last call returned
    log,               \* per caller: the attempts and sleeps of its last call
    ncalls,            \* calls begun so far
    nticks,            \* clock advances so far
    env,               \* the provider's data and the inputs of a run
    user_movies,       \* app.user_movies: the user's history
    op                 \* what the last client or engine operation did

vars == <<cache, cache_timestamps, now, pc, req, attempt, data, t_check, snap,
          result, log, ncalls, nticks, env, user_movies, op>>

appVars == <<env, user_movies, op>>
threadVars == <<pc, req, attempt, data, t_check, snap, result, log>>

clientVars == <<cache, cache_timestamps>>
localVars == <<req, attempt, data, t_check, snap, result, log>>

NoEnv == [kind |-> "none"]
NoOp == [name |-> "none"]

NoSnap == [has |-> FALSE, payload |-> None, storedAt |-> 0]
AnyRequest == CHOOSE r \in Requests : TRUE

Init ==
    /\ cache = EmptyDict
    /\ cache_timestamps = EmptyDict
    /\ now = 0
    /\ pc = [t \in Threads |-> "idle"]
    /\ req = [t \in Threads |-> AnyRequest]
    /\ attempt = [t \in Threads |-> 0]
    /\ data = [t \in Threads |-> None]
    /\ t_check = [t \in Threads |-> 0]
    /\ snap = [t \in Threads |-> NoSnap]
    /\ result = [t \in Threads |-> None]
    /\ log = [t \in Threads |-> <<>>]
    /\ ncalls = 0
    /\ nticks = 0
    /\ env = NoEnv
    /\ user_movies = <<>>
    /\ op = NoOp

Key(t) == CacheKey(req[t])

Ev(e, n, s, b) == [ev |-> e, n |-> n, status |-> s, body |-> b]

\* The call of caller t ends: it returns v (or raises, v = Raised).
Return(t, v) ==
    /\ pc' = [pc EXCEPT ![t] = "idle"]
    /\ result' = [result EXCEPT ![t] = v]

(***************************************************************************)
(* _make_request, line by line (src/tmdb_client.py:23-87).                 *)
(***************************************************************************)
\* A caller enters _make_request(endpoint, params).
Call(t, r) ==
    /\ pc[t] = "idle"
    /\ pc' = [pc EXCEPT ![t] = "L27"]
    /\ req' = [req EXCEPT ![t] = r]
    /\ attempt' = [attempt EXCEPT ![t] = 0]
    /\ data' = [data EXCEPT ![t] = None]
    /\ t_check' = [t_check EXCEPT ![t] = 0]
    /\ result' = [result EXCEPT ![t] = None]
    /\ log' = [log EXCEPT ![t] = <<>>]
    /\ snap' = [snap EXCEPT ![t] =
                  IF CacheKey(r) \in DOMAIN cache /\ CacheKey(r) \in DOMAIN cache_timestamps
                  THEN [has |-> TRUE, payload |-> cache[CacheKey(r)],
                        storedAt |-> cache_timestamps[CacheKey(r)]]
                  ELSE NoSnap]
    /\ UNCHANGED <<appVars, cache, cache_timestamps, now, nticks>>

\* line 27: if cache_key in self.cache
CheckCache(t) ==
    /\ pc[t] = "L27"
    /\ pc' = [pc EXCEPT ![t] = IF Key(t) \in DOMAIN cache THEN "L29" ELSE "L45"]
    /\ UNCHANGED <<appVars, cache, cache_timestamps, now, localVars, ncalls, nticks>>

\* line 29: time.time() - self.cache_timestamps[cache_key] < Config.CACHE_TTL
FreshInclusive(t, storedAt) == t - storedAt <= CACHE_TTL
FreshAt(t, storedAt) == t - storedAt < CACHE_TTL
Fresh(t) == FreshAt(now, cache_timestamps[Key(t)])

CheckTTL(t) ==
    /\ pc[t] = "L29"
    /\ t_check' = [t_check EXCEPT ![t] = now]
    /\ IF Key(t) \notin DOMAIN cache_timestamps
       THEN Return(t, Raised)
       ELSE /\ pc' = [pc EXCEPT ![t] = IF Fresh(t) THEN "L31" ELSE "L34"]
            /\ UNCHANGED result
    /\ UNCHANGED <<appVars, cache, cache_timestamps, now, req, attempt, data, snap, log,
                   ncalls, nticks>>

\* line 31: return self.cache[cache_key]
ReturnHit(t) ==
    /\ pc[t] = "L31"
    /\ IF Key(t) \notin DOMAIN cache
       THEN Return(t, Raised) /\ UNCHANGED log
       ELSE /\ Return(t, cache[Key(t)])
            /\ log' = [log EXCEPT ![t] = Append(@, Ev("hit", 0, "-", cache[Key(t)]))]
    /\ UNCHANGED <<appVars, cache, cache_timestamps, now, req, attempt, data, t_check, snap,
                   ncalls, nticks>>

\* line 34: del self.cache[cache_key]
DelCache(t) ==
    /\ pc[t] = "L34"
    /\ IF Key(t) \notin DOMAIN cache
       THEN Return(t, Raised) /\ UNCHANGED <<cache, log>>
       ELSE /\ cache' = DictDel(cache, Key(t))
            /\ pc' = [pc EXCEPT ![t] = "L35"]
            /\ log' = [log EXCEPT ![t] = Append(@, Ev("evict", 0, "-", None))]
            /\ UNCHANGED result
    /\ UNCHANGED <<appVars, cache_timestamps, now, req, attempt, data, t_check, snap,
                   ncalls, nticks>>

\* line 35: del self.cache_timestamps[cache_key]
DelTimestamp(t) ==
    /\ pc[t] = "L35"
    /\ IF Key(t) \notin DOMAIN cache_timestamps
       THEN Return(t, Raised) /\ UNCHANGED cache_timestamps
       ELSE /\ cache_timestamps' = DictDel(cache_timestamps, Key(t))
            /\ pc' = [pc EXCEPT ![t] = "L45"]
            /\ UNCHANGED result
    /\ UNCHANGED <<appVars, cache, now, req, attempt, data, t_check, snap, log, ncalls, nticks>>

\* The branch an attempt's outcome takes (lines 49-85).
Terminal(s) == s \in {"401", "404"}
RetriedNot429(s) == s \notin {"200", "401", "404", "429"}
Retried(s) == s \notin {"200", "401", "404"}

MayRetryAfterLast(a) == a < MAX_RETRIES

\* lines 60, 69, 76, 82: if attempt < Config.MAX_RETRIES - 1
MayRetry(a) == a < MAX_RETRIES - 1

\* line 45: for attempt in range(Config.MAX_RETRIES)
InLoop(a) == a < MAX_RETRIES

\* lines 45-50, 55-87: one requests.get and the branch on its outcome.
Attempt(t, s, b) ==
    /\ pc[t] = "L45"
    /\ IF ~InLoop(attempt[t])
       THEN Return(t, None) /\ UNCHANGED <<log, data>>            \* line 87
       ELSE /\ log' = [log EXCEPT ![t] = Append(@, Ev("attempt", attempt[t] + 1, s, IF s = "200" THEN b ELSE None))]
            /\ IF s = "200"
               THEN /\ data' = [data EXCEPT ![t] = b]
                    /\ pc' = [pc EXCEPT ![t] = "L52"]
                    /\ UNCHANGED result
               ELSE /\ UNCHANGED data
                    /\ IF Retried(s) /\ MayRetry(attempt[t])
                       THEN pc' = [pc EXCEPT ![t] = "sleep"] /\ UNCHANGED result
                       ELSE Return(t, None)
    /\ UNCHANGED <<appVars, cache, cache_timestamps, now, req, attempt, t_check, snap,
                   ncalls, nticks>>

\* lines 61-62, 70-71, 77-78, 83-84: time.sleep(RETRY_DELAYS[attempt]); continue
Sleep(t) ==
    /\ pc[t] = "sleep"
    /\ now' = now + RETRY_DELAYS[attempt[t] + 1]
    /\ log' = [log EXCEPT ![t] = Append(@, Ev("sleep", RETRY_DELAYS[attempt[t] + 1], "-", None))]
    /\ attempt' = [attempt EXCEPT ![t] = @ + 1]
    /\ pc' = [pc EXCEPT ![t] = "L45"]
    /\ UNCHANGED <<appVars, cache, cache_timestamps, req, data, t_check, snap, result,
                   ncalls, nticks>>

\* line 52: self.cache[cache_key] = data
StoreCache(t) ==
    /\ pc[t] = "L52"
    /\ cache' = DictSet(cache, Key(t), data[t])
    /\ pc' = [pc EXCEPT ![t] = "L53"]
    /\ UNCHANGED <<appVars, cache_timestamps, now, localVars, ncalls, nticks>>

\* lines 53-54: self.cache_timestamps[cache_key] = time.time(); return data
StoreTimestamp(t) ==
    /\ pc[t] = "L53"
    /\ cache_timestamps' = DictSet(cache_timestamps, Key(t), now)
    /\ Return(t, data[t])
    /\ log' = [log EXCEPT ![t] = Append(@, Ev("store", now, "-", data[t]))]
    /\ UNCHANGED <<appVars, cache, now, req, attempt, data, t_check, snap, ncalls, nticks>>

\* Time passes.
TickSteps == {CACHE_TTL - 1, CACHE_TTL}

Tick(d) ==
    /\ nticks < MaxTicks
    /\ nticks' = nticks + 1
    /\ now' = now + d
    /\ UNCHANGED <<appVars, cache, cache_timestamps, pc, localVars, ncalls>>

StepWith(t, outcomes) ==
    \/ CheckCache(t) \/ CheckTTL(t) \/ ReturnHit(t) \/ DelCache(t) \/ DelTimestamp(t)
    \/ \E s \in outcomes : \E b \in (IF s = "200" THEN Bodies ELSE {None}) : Attempt(t, s, b)
    \/ Sleep(t) \/ StoreCache(t) \/ StoreTimestamp(t)

Step(t) == StepWith(t, Statuses)

(***************************************************************************)
(* Spec: one caller at a time.                                             *)
(***************************************************************************)
SeqCall(r) ==
    /\ ncalls < MaxCalls
    /\ \A u \in Threads : pc[u] = "idle"
    /\ ncalls' = ncalls + 1
    /\ Call(1, r)

SeqTick(d) ==
    /\ \A u \in Threads : pc[u] = "idle"
    /\ ncalls < MaxCalls
    /\ Tick(d)

Next ==
    \/ \E r \in Requests : SeqCall(r)
    \/ Step(1)
    \/ \E d \in TickSteps : SeqTick(d)

Spec == Init /\ [][Next]_vars

FairSpec == Spec /\ WF_vars(Step(1))

(***************************************************************************)
(* ConcSpec: the callers of the importer's thread pool                     *)
(* (src/csv_importer.py:193-218) run _make_request on one client, their    *)
(* lines interleaved.  The client may start with an entry written by an    *)
(* earlier request.                                                        *)
(***************************************************************************)
ConcStatuses == {"200", "404", "Timeout"}

ConcInit ==
    /\ \E r \in Requests, warm \in BOOLEAN :
          /\ cache = IF warm THEN DictSet(EmptyDict, CacheKey(r), "payload1") ELSE EmptyDict
          /\ cache_timestamps = IF warm THEN DictSet(EmptyDict, CacheKey(r), 0) ELSE EmptyDict
    /\ now = 0
    /\ pc = [t \in Threads |-> "idle"]
    /\ req = [t \in Threads |-> AnyRequest]
    /\ attempt = [t \in Threads |-> 0]
    /\ data = [t \in Threads |-> None]
    /\ t_check = [t \in Threads |-> 0]
    /\ snap = [t \in Threads |-> NoSnap]
    /\ result = [t \in Threads |-> None]
    /\ log = [t \in Threads |-> <<>>]
    /\ ncalls = 0
    /\ nticks = 0
    /\ env = NoEnv
    /\ user_movies = <<>>
    /\ op = NoOp

ConcCall(t, r) ==
    /\ ncalls < ConcCalls
    /\ ncalls' = ncalls + 1
    /\ Call(t, r)

ConcNext ==
    \/ \E t \in Threads, r \in Requests : ConcCall(t, r)
    \/ \E t \in Threads : StepWith(t, ConcStatuses)
    \/ \E d \in TickSteps : Tick(d)

ConcSpec == ConcInit /\ [][ConcNext]_vars

(***************************************************************************)
(* What a finished call shows.                                             *)
(***************************************************************************)
Done(t) == pc[t] = "idle" /\ (log[t] # <<>> \/ result[t] = Raised)
IsAttempt(e) == e.ev = "attempt"
IsSleep(e) == e.ev = "sleep"
AttemptsOf(l) == SelectSeq(l, IsAttempt)
NumAttempts(l) == Len(AttemptsOf(l))
HasEv(l, e) == \E i \in 1..Len(l) : l[i].ev = e

\* The failures the retry contract names: timeout, rate limit, server error.
RetryableFailures == {"Timeout", "429", "500"}

\* C1: a call that misses the cache makes at most MAX_RETRIES attempts; it
\* stops at its first success and returns that success's payload (after k
\* retryable failures: k+1 attempts); a call all of whose outcomes were
\* retryable failures made exactly MAX_RETRIES attempts and returned None;
\* and a call in progress is inside the loop bound and has a next step.
C1_RetryContract ==
    \A t \in Threads :
        /\ (Done(t) /\ NumAttempts(log[t]) > 0) =>
              LET a == AttemptsOf(log[t]) IN
              /\ Len(a) <= MAX_RETRIES
              /\ \A i \in 1..Len(a) : a[i].n = i
              /\ \A i \in 1..Len(a) : a[i].status = "200" =>
                     (i = Len(a) /\ result[t] = a[i].body)
              /\ (\A i \in 1..Len(a) : a[i].status \in RetryableFailures) =>
                     (Len(a) = MAX_RETRIES /\ result[t] = None)
        /\ pc[t] # "idle" =>
              (NumAttempts(log[t]) <= MAX_RETRIES /\ attempt[t] < MAX_RETRIES
               /\ ENABLED Step(t))

\* Termination of C1 as a liveness property, under FairSpec.
C1_Terminates == \A t \in Threads : (pc[t] # "idle") ~> (pc[t] = "idle")

C1_Witness ==
    /\ Done(1)
    /\ NumAttempts(log[1]) = MAX_RETRIES
    /\ AttemptsOf(log[1])[1].status = "Timeout"
    /\ AttemptsOf(log[1])[2].status = "429"
    /\ AttemptsOf(log[1])[3].status = "200"
    /\ result[1] \in Bodies

(***************************************************************************)
(* C2: the cache decision of a call, against the entry it found.           *)
(***************************************************************************)
EntryFresh(t) == snap[t].has /\ t_check[t] - snap[t].storedAt < CACHE_TTL
FromCache(t) ==
    /\ NumAttempts(log[t]) = 0
    /\ HasEv(log[t], "hit")
    /\ result[t] = snap[t].payload

\* C2: a finished call was answered from the cache (no attempt, the stored
\* payload returned) exactly when its key had an entry with age < CACHE_TTL
\* at the check; an entry of age >= CACHE_TTL was deleted first and the
\* request dispatched; after a successful write the entry holds the written
\* payload at the time of the write, so a read at that time returns it.
C2_CacheDecision ==
    \A t \in Threads :
        Done(t) =>
            /\ FromCache(t) <=> EntryFresh(t)
            /\ (snap[t].has /\ ~EntryFresh(t)) =>
                   /\ log[t][1].ev = "evict"
                   /\ NumAttempts(log[t]) >= 1
                   /\ (Key(t) \in DOMAIN cache =>
                         (log[t][Len(log[t])].ev = "store"
                          /\ cache_timestamps[Key(t)] >= t_check[t]))
            /\ log[t][Len(log[t])].ev = "store" =>
                   /\ cache[Key(t)] = result[t]
                   /\ cache_timestamps[Key(t)] = log[t][Len(log[t])].n
                   /\ result[t] \in Bodies
            /\ (snap[t].has /\ t_check[t] = snap[t].storedAt) =>
                   (result[t] = snap[t].payload /\ NumAttempts(log[t]) = 0)

\* An entry of age exactly CACHE_TTL was found, deleted and fetched again.
C2_Witness ==
    /\ Done(1)
    /\ snap[1].has
    /\ t_check[1] - snap[1].storedAt = CACHE_TTL
    /\ log[1][1].ev = "evict"
    /\ result[1] \in Bodies
    /\ result[1] # snap[1].payload

(***************************************************************************)
(* C4: terminal outcomes.                                                  *)
(***************************************************************************)
TerminalOutcomes == {"401", "400", "404"}

\* C4: an attempt that ends in 401, 400 or 404 is the last event of its call
\* (no sleep, no further attempt) and the call returns None.
C4_TerminalNeverRetried ==
    \A t \in Threads :
        \A i \in 1..Len(log[t]) :
            (log[t][i].ev = "attempt" /\ log[t][i].status \in TerminalOutcomes) =>
                /\ i = Len(log[t])
                /\ pc[t] = "idle"
                /\ result[t] = None

(***************************************************************************)
(* C3: concurrent callers.                                                 *)
(***************************************************************************)
\* C3: under every interleaving of concurrent callers, no call ends by
\* raising: none finds a key with a payload but no timestamp, and none
\* finds its entry deleted between the membership check and its read or
\* delete.
C3_NoCallRaises == \A t \in Threads : result[t] # Raised

(***************************************************************************)
(* _make_request as one step, for the operations that call it in sequence  *)
(* (src/tmdb_client.py:23-87).  c is the client and its clock,             *)
(* [cache, ts, now]; outs are the outcomes of the successive requests.get. *)
(***************************************************************************)
Min(a, b) == IF a <= b THEN a ELSE b
Max(a, b) == IF a >= b THEN a ELSE b

Outcome(s, b) == [status |-> s, body |-> b]
OutcomeAt(outs, i) == outs[Min(i, Len(outs))]

\* not data: None or an empty JSON object
Falsy(r) == r.absent \/ DOMAIN r.result = {}

RECURSIVE RetryLoop(_, _, _, _, _)
RetryLoop(c, key, outs, a, tr) ==
    IF ~InLoop(a)
    THEN [c |-> c, absent |-> TRUE, result |-> EmptyDict, trace |-> tr]        \* line 87
    ELSE LET o == OutcomeAt(outs, a + 1)
             tr1 == Append(tr, Ev("attempt", a + 1, o.status, None))
         IN  IF o.status = "200"
             THEN [c |-> [c EXCEPT !.cache = DictSet(@, key, o.body),
                                   !.ts = DictSet(@, key, c.now)],
                   absent |-> FALSE, result |-> o.body,
                   trace |-> Append(tr1, Ev("store", c.now, "-", None))]
             ELSE IF Retried(o.status) /\ MayRetry(a)
                  THEN RetryLoop([c EXCEPT !.now = @ + RETRY_DELAYS[a + 1]], key, outs,
                                 a + 1,
                                 Append(tr1, Ev("sleep", RETRY_DELAYS[a + 1], "-", None)))
                  ELSE [c |-> c, absent |-> TRUE, result |-> EmptyDict, trace |-> tr1]

MakeRequest(c, key, outs) ==
    IF key \in DOMAIN c.cache
    THEN IF FreshAt(c.now, c.ts[key])
         THEN [c |-> c, absent |-> FALSE, result |-> c.cache[key],
               trace |-> <<Ev("hit", 0, "-", None)>>]
         ELSE RetryLoop([c EXCEPT !.cache = DictDel(@, key), !.ts = DictDel(@, key)],
                        key, outs, 0, <<Ev("evict", 0, "-", None)>>)
    ELSE RetryLoop(c, key, outs, 0, <<>>)

TheClient == [cache |-> cache, ts |-> cache_timestamps, now |-> now]

\* The client and the clock after an operation that left them as c.
ClientBecomes(c) ==
    /\ cache' = c.cache
    /\ cache_timestamps' = c.ts
    /\ now' = c.now

(***************************************************************************)
(* The provider's catalogue.  The movie at rank k of the popularity        *)
(* listing has id k; its fields are fixed functions of the id.             *)
(***************************************************************************)
NoYear == 0

RawYear(id) == <<2026, 2024, 2019, 1994, NoYear, 2012>>[(id % 6) + 1]
RawGenreIds(id) ==
    << <<18>>, <<28, 12>>, <<>>, <<35, 18>>, <<27>>, <<424242>>, <<878, 424242>> >>[(id % 7) + 1]
RawVote(id) == <<85, 0, 70, 100, 55>>[(id % 5) + 1]           \* vote_average, in tenths
RawPopularity(id) == <<600, 0, 250, 500, 1>>[((id \div 2) % 5) + 1]

PAGE_SIZE == 20
PAGE_STOP == 51

(***************************************************************************)
(* The provider's popularity listing: n movies, PAGE_SIZE per page; past   *)
(* the last page it answers with an empty result list or with an error.    *)
(***************************************************************************)
PageIds(n, page) ==
    [i \in 1..Max(0, Min(PAGE_SIZE, n - (page - 1) * PAGE_SIZE)) |-> (page - 1) * PAGE_SIZE + i]

PageBody(n, page) == [page |-> page, results |-> PageIds(n, page)]
ErrorBody == [status_message |-> "error"]

Scripts == {"flaky", "down", "notfound", "noresults", "emptyjson"}

\* The outcomes of the requests for one key, given the good answer to it.
Script(name, good) ==
    CASE name = "ok" -> <<Outcome("200", good)>>
      [] name = "flaky" -> <<Outcome("Timeout", EmptyDict), Outcome("429", EmptyDict),
                             Outcome("200", good)>>
      [] name = "down" -> <<Outcome("500", EmptyDict)>>
      [] name = "notfound" -> <<Outcome("404", EmptyDict)>>
      [] name = "noresults" -> <<Outcome("200", ErrorBody)>>
      [] name = "emptyjson" -> <<Outcome("200", EmptyDict)>>

\* What the provider answers to the requests for one page of the listing;
\* prov = [n, tailKind, failPage, script].
PopularOutcomes(prov, page) ==
    IF page = prov.failPage THEN Script(prov.script, PageBody(prov.n, page))
    ELSE IF (page - 1) * PAGE_SIZE < prov.n \/ prov.tailKind = "empty"
         THEN Script("ok", PageBody(prov.n, page))
         ELSE Script("down", PageBody(prov.n, page))

(***************************************************************************)
(* get_popular_movies (src/tmdb_client.py:205-243).                        *)
(***************************************************************************)
PopularKey(page) == CacheKey([endpoint |-> "movie/popular", params |-> <<"page", page>>])

\* lines 219-238: the record appended for one raw movie
Candidate(id) ==
    [tmdb_id |-> id, year |-> RawYear(id), genre_ids |-> RawGenreIds(id),
     rating |-> RawVote(id), popularity |-> RawPopularity(id)]

\* lines 218-241: the loop over one page's results; stops once limit is reached
RECURSIVE AppendPage(_, _, _, _)
AppendPage(all, results, i, limit) ==
    IF i > Len(results)
    THEN [all |-> all, returned |-> FALSE]
    ELSE LET all1 == Append(all, Candidate(results[i]))
         IN  IF Len(all1) >= limit
             THEN [all |-> all1, returned |-> TRUE]
             ELSE AppendPage(all1, results, i + 1, limit)

\* line 210
PagesNeeded(limit) == (limit \div PAGE_SIZE) + 1

\* line 212: range(1, min(pages_needed + 1, 51))
LastPageStop(limit) == Min(PagesNeeded(limit) + 1, PAGE_STOP)

RECURSIVE PagesLoop(_, _, _, _, _, _)
PagesLoop(c, page, all, limit, prov, requested) ==
    IF page >= LastPageStop(limit)
    THEN [c |-> c, result |-> all, requested |-> requested]
    ELSE LET r == MakeRequest(c, PopularKey(page), PopularOutcomes(prov, page))
             req1 == Append(requested, [page |-> page, trace |-> r.trace])
         IN  IF Falsy(r) \/ "results" \notin DOMAIN r.result
             THEN [c |-> r.c, result |-> all, requested |-> req1]             \* break
             ELSE LET it == AppendPage(all, r.result.results, 1, limit)
                  IN  IF it.returned
                      THEN [c |-> r.c, result |-> it.all, requested |-> req1]
                      ELSE PagesLoop(r.c, page + 1, it.all, limit, prov, req1)

GetPopularMovies(c, limit, prov) == PagesLoop(c, 1, <<>>, limit, prov, <<>>)

(***************************************************************************)
(* PopSpec: calls of get_popular_movies on one client.                     *)
(***************************************************************************)
MaxPopCalls == 1
BigCatalog == 1005
CatalogSizes == {0, 1, 19, 20, 21, 40, 45, BigCatalog}
Limits == {0, 1, 19, 20, 21, 40, 41, 979, 1000, 2000}
FailPages == 1..2
Injections == {[page |-> 0, script |-> "ok"]} \cup [page : FailPages, script : Scripts]

PopInit ==
    /\ \E n \in CatalogSizes, tailKind \in {"empty", "error"}, warm \in BOOLEAN :
          /\ env = [kind |-> "popular", n |-> n, tailKind |-> tailKind]
          /\ cache = IF warm THEN DictSet(EmptyDict, PopularKey(1), PageBody(n, 1))
                      ELSE EmptyDict
          /\ cache_timestamps = IF warm THEN DictSet(EmptyDict, PopularKey(1), 0)
                                 ELSE EmptyDict
    /\ now = 0
    /\ pc = [t \in Threads |-> "idle"]
    /\ req = [t \in Threads |-> AnyRequest]
    /\ attempt = [t \in Threads |-> 0]
    /\ data = [t \in Threads |-> None]
    /\ t_check = [t \in Threads |-> 0]
    /\ snap = [t \in Threads |-> NoSnap]
    /\ result = [t \in Threads |-> None]
    /\ log = [t \in Threads |-> <<>>]
    /\ ncalls = 0
    /\ nticks = 0
    /\ user_movies = <<>>
    /\ op = NoOp

PopularCall(limit, inj) ==
    /\ ncalls < MaxPopCalls
    /\ ncalls' = ncalls + 1
    /\ \E r \in {GetPopularMovies(TheClient, limit,
                                    [n |-> env.n, tailKind |-> env.tailKind,
                                     failPage |-> inj.page, script |-> inj.script])} :
           /\ ClientBecomes(r.c)
           /\ op' = [name |-> "get_popular_movies", limit |-> limit,
                     result |-> r.result, requested |-> r.requested]
    /\ UNCHANGED <<threadVars, nticks, env, user_movies>>

PopTick ==
    /\ nticks < MaxTicks
    /\ nticks' = nticks + 1
    /\ now' = now + CACHE_TTL
    /\ UNCHANGED <<cache, cache_timestamps, threadVars, ncalls, appVars>>

PopNext ==
    \/ \E limit \in Limits, inj \in Injections : PopularCall(limit, inj)
    \/ PopTick

PopSpec == PopInit /\ [][PopNext]_vars

(***************************************************************************)
(* C9: the popular pool.                                                   *)
(***************************************************************************)
IsPopularOp == op.name = "get_popular_movies"

\* The listing in provider page order, as far as the provider has it.
ListingPrefix(k) == [i \in 1..k |-> Candidate(i)]

\* C9: get_popular_movies(limit) returns at most limit records, for every
\* limit >= 0, in provider page order; it requests the pages 1, 2, ... in
\* order, none after the page on which the limit was reached and never more
\* than 50.
C9_PopularPool ==
    IsPopularOp =>
        /\ Len(op.result) <= op.limit
        /\ op.result = ListingPrefix(Len(op.result))
        /\ Len(op.requested) <= PAGE_STOP - 1
        /\ \A i \in 1..Len(op.requested) : op.requested[i].page = i
        /\ Len(op.result) >= op.limit => Len(op.requested) = (op.limit + 19) \div 20

\* The same for limit >= 1 only.
C9_PopularPoolPositiveLimit == (IsPopularOp /\ op.limit >= 1) => C9_PopularPool

(***************************************************************************)
(* search_movie (src/tmdb_client.py:89-146).                               *)
(***************************************************************************)
YEAR_MATCH_BONUS == 100
TOP_RESULTS == 10

\* dict.get(field, default)
Get(m, field, default) == IF field \in DOMAIN m THEN m[field] ELSE default

\* m with m[field] = v
With(m, field, v) == [x \in (DOMAIN m) \cup {field} |-> IF x = field THEN v ELSE m[x]]

\* lines 110-115, 130-135: the year of a release_date; a date is 0 when the
\* field is empty, negative when its first four characters are no number,
\* else the year it begins with.
ReleaseYear(m) ==
    IF Get(m, "release_date", 0) > 0 THEN m.release_date ELSE NoYear

\* line 119
BonusNone(release_year, year) == 0
Bonus(release_year, year) == IF release_year = year THEN YEAR_MATCH_BONUS ELSE 0

\* lines 117-120
Relevance(m, year) == Get(m, "popularity", 0) + Bonus(ReleaseYear(m), year)

\* list.sort(key = x.get(field, 0), reverse = True): stable, descending
InsertDescUnstable(acc, x, field) ==
    LET k == Cardinality({i \in 1..Len(acc) : Get(acc[i], field, 0) > Get(x, field, 0)})
    IN  SubSeq(acc, 1, k) \o <<x>> \o SubSeq(acc, k + 1, Len(acc))

InsertDesc(acc, x, field) ==
    LET k == Cardinality({i \in 1..Len(acc) : Get(acc[i], field, 0) >= Get(x, field, 0)})
    IN  SubSeq(acc, 1, k) \o <<x>> \o SubSeq(acc, k + 1, Len(acc))

RECURSIVE SortDescFrom(_, _, _, _)
SortDescFrom(acc, seq, i, field) ==
    IF i > Len(seq) THEN acc
    ELSE SortDescFrom(InsertDesc(acc, seq[i], field), seq, i + 1, field)

SortDesc(seq, field) == SortDescFrom(<<>>, seq, 1, field)

\* lines 94-97
SearchKey(title, year) ==
    CacheKey([endpoint |-> "search/movie",
              params |-> IF year # NoYear THEN <<"query", title, "year", year>>
                         ELSE <<"query", title>>])

\* lines 137-144
Formatted(m) ==
    [tmdb_id |-> m.id, year |-> ReleaseYear(m), popularity |-> Get(m, "popularity", 0)]

\* lines 107-125: the ranking; the list ranked is the one held by the cache
Ranked(results, year) ==
    IF year # NoYear
    THEN SortDesc([i \in 1..Len(results) |->
                      With(results[i], "relevance_score", Relevance(results[i], year))],
                  "relevance_score")
    ELSE SortDesc(results, "popularity")

SearchMovie(c, title, year, outs) ==
    LET key == SearchKey(title, year)
        r == MakeRequest(c, key, outs)
    IN  IF Falsy(r) \/ "results" \notin DOMAIN r.result
        THEN [c |-> r.c, result |-> <<>>, trace |-> r.trace, raw |-> <<>>]
        ELSE LET ranked == Ranked(r.result.results, year)
             IN  [c |-> [r.c EXCEPT !.cache[key] = With(r.result, "results", ranked)],
                  result |-> [i \in 1..Min(TOP_RESULTS, Len(ranked)) |-> Formatted(ranked[i])],
                  trace |-> r.trace,
                  raw |-> r.result.results]

(***************************************************************************)
(* The provider's answer to a search: n raw results, their popularity and  *)
(* release date following the pattern g = [n, a, b, c, d].                 *)
(***************************************************************************)
MaxRaw == 12
RawSizes == {0, 1, 3, TOP_RESULTS, TOP_RESULTS + 1, MaxRaw}
PatternMuls == 0..2
PatternCycles == 1..2
SearchYears == {NoYear, 1995}

RawPopularities == <<0, 5, 50, 150, 105>>
RawDates == <<2010, 0, -1>>

RawResult(g, i) ==
    LET p == RawPopularities[((g.a * i + g.b) % Len(RawPopularities)) + 1]
        base == [id |-> 100 + i,
                 release_date |-> IF (i + g.d) % g.c = 0 THEN 1995
                                  ELSE RawDates[(i % Len(RawDates)) + 1]]
    IN  IF p = 0 THEN base ELSE With(base, "popularity", p)

SearchBody(g) == [page |-> 1, results |-> [i \in 1..g.n |-> RawResult(g, i)]]

SearchScripts == {"ok", "down", "noresults"}

(***************************************************************************)
(* SearchSpec: calls of search_movie on one client.                        *)
(***************************************************************************)
MaxSearchCalls == 2

SearchInit ==
    /\ cache = EmptyDict
    /\ cache_timestamps = EmptyDict
    /\ now = 0
    /\ pc = [t \in Threads |-> "idle"]
    /\ req = [t \in Threads |-> AnyRequest]
    /\ attempt = [t \in Threads |-> 0]
    /\ data = [t \in Threads |-> None]
    /\ t_check = [t \in Threads |-> 0]
    /\ snap = [t \in Threads |-> NoSnap]
    /\ result = [t \in Threads |-> None]
    /\ log = [t \in Threads |-> <<>>]
    /\ ncalls = 0
    /\ nticks = 0
    /\ \E n \in RawSizes, a \in PatternMuls, b \in PatternMuls, c \in PatternCycles :
          \E d \in 0..(c - 1) :
              env = [kind |-> "search", n |-> n, a |-> a, b |-> b, c |-> c, d |-> d]
    /\ user_movies = <<>>
    /\ op = NoOp

SearchCall(year, script) ==
    /\ ncalls < MaxSearchCalls
    /\ ncalls' = ncalls + 1
    /\ \E r \in {SearchMovie(TheClient, "Heat", year, Script(script, SearchBody(env)))} :
           /\ ClientBecomes(r.c)
           /\ op' = [name |-> "search_movie", year |-> year, result |-> r.result,
                     raw |-> r.raw, trace |-> r.trace]
    /\ UNCHANGED <<threadVars, nticks, env, user_movies>>

SearchTick ==
    /\ nticks < MaxTicks
    /\ ncalls < MaxSearchCalls
    /\ nticks' = nticks + 1
    /\ now' = now + CACHE_TTL
    /\ UNCHANGED <<cache, cache_timestamps, threadVars, ncalls, appVars>>

SearchNext ==
    \/ \E year \in SearchYears, script \in SearchScripts : SearchCall(year, script)
    \/ SearchTick

SearchSpec == SearchInit /\ [][SearchNext]_vars

(***************************************************************************)
(* C10: the ranking of search results.                                     *)
(***************************************************************************)
IsSearchOp == op.name = "search_movie"

\* The ranking key the contract gives a raw result.
RankingKey(m, year) ==
    Get(m, "popularity", 0)
      + (IF year # NoYear /\ ReleaseYear(m) = year THEN 100 ELSE 0)

\* C10: search_movie returns min(10, number of raw results) results, each a
\* distinct raw result, in descending order of the ranking key (popularity,
\* plus 100 when a target year is given and equals the release year), and
\* no raw result left out has a strictly higher key than a returned one.
C10_SearchRanking ==
    IsSearchOp =>
        LET res == op.result
            ids == {res[i].tmdb_id : i \in 1..Len(res)}
            rawIds == {op.raw[i].id : i \in 1..Len(op.raw)}
            rawOf == [id \in rawIds |-> CHOOSE m \in {op.raw[i] : i \in 1..Len(op.raw)} : m.id = id]
            keyOf == [id \in rawIds |-> RankingKey(rawOf[id], op.year)]
        IN  /\ Len(res) = Min(10, Len(op.raw))
            /\ ids \subseteq rawIds
            /\ Cardinality(ids) = Len(res)
            /\ \A i \in 1..Len(res) :
                  res[i].popularity = Get(rawOf[res[i].tmdb_id], "popularity", 0)
            /\ \A i \in 1..(Len(res) - 1) : keyOf[res[i].tmdb_id] >= keyOf[res[i + 1].tmdb_id]
            /\ \A id \in rawIds \ ids : \A j \in 1..Len(res) : keyOf[id] <= keyOf[res[j].tmdb_id]

\* More than 10 raw results with a target year: a year match of lower
\* popularity is returned ahead of a more popular result, and a result is cut.
C10_Witness ==
    /\ IsSearchOp
    /\ op.year = 1995
    /\ Len(op.raw) > 10
    /\ Len(op.result) = 10
    /\ \E i, j \in 1..Len(op.result) :
          /\ i < j
          /\ op.result[i].popularity < op.result[j].popularity
          /\ op.result[i].year = 1995

(***************************************************************************)
(* get_movie_details (src/tmdb_client.py:148-203).                         *)
(***************************************************************************)
\* RecommendationEngine.genre_map (src/recommendation_engine.py:15-21)
GenreMap ==
    [gid \in {28, 12, 16, 35, 80, 99, 18, 10751, 14, 36, 27, 10402, 9648, 10749, 878,
              10770, 53, 10752, 37} |->
        CASE gid = 28 -> "Action" [] gid = 12 -> "Adventure" [] gid = 16 -> "Animation"
          [] gid = 35 -> "Comedy" [] gid = 80 -> "Crime" [] gid = 99 -> "Documentary"
          [] gid = 18 -> "Drama" [] gid = 10751 -> "Family" [] gid = 14 -> "Fantasy"
          [] gid = 36 -> "History" [] gid = 27 -> "Horror" [] gid = 10402 -> "Music"
          [] gid = 9648 -> "Mystery" [] gid = 10749 -> "Romance"
          [] gid = 878 -> "Science Fiction" [] gid = 10770 -> "TV Movie"
          [] gid = 53 -> "Thriller" [] gid = 10752 -> "War" [] gid = 37 -> "Western"]

\* The provider's name of a genre: that of the table, or one the table lacks.
ProviderGenreName(gid) == IF gid \in DOMAIN GenreMap THEN GenreMap[gid] ELSE "Anime"

\* The provider's answers to movie/{id} and movie/{id}/credits.
MovieBody(id) ==
    [id |-> id,
     genres |-> [i \in 1..Len(RawGenreIds(id)) |-> ProviderGenreName(RawGenreIds(id)[i])],
     release_date |-> RawYear(id),
     vote_average |-> RawVote(id),
     popularity |-> RawPopularity(id)]
CreditsBody(id) ==
    [id |-> id,
     cast |-> <<[name |-> "actor", character |-> "role"]>>,
     crew |-> <<[name |-> "writer", job |-> "Writer"], [name |-> "director", job |-> "Director"]>>]

\* the rating None (ratings are in tenths)
NoRating == -1

MovieKey(id) == CacheKey([endpoint |-> "movie/" \o ToString(id), params |-> <<>>])
CreditsKey(id) ==
    CacheKey([endpoint |-> "movie/" \o ToString(id) \o "/credits", params |-> <<>>])

\* lines 172-177: the first crew member whose job is Director
Director(crew) ==
    LET ds == {i \in 1..Len(crew) : Get(crew[i], "job", "") = "Director"}
    IN  IF ds = {} THEN None ELSE crew[CHOOSE i \in ds : \A j \in ds : i <= j].name

\* prov = [failIds, script]: the ids whose movie request the provider fails.
MovieOutcomes(prov, id) ==
    IF id \in prov.failIds THEN Script(prov.script, MovieBody(id))
    ELSE Script("ok", MovieBody(id))

GetMovieDetails(c, id, prov) ==
    LET m == MakeRequest(c, MovieKey(id), MovieOutcomes(prov, id))
    IN  IF Falsy(m)
        THEN [c |-> m.c, absent |-> TRUE, details |-> EmptyDict, requests |-> 1]
        ELSE LET cr == MakeRequest(m.c, CreditsKey(id), Script("ok", CreditsBody(id)))
                 hasCast == ~Falsy(cr) /\ "cast" \in DOMAIN cr.result
                 hasCrew == ~Falsy(cr) /\ "crew" \in DOMAIN cr.result
             IN  [c |-> cr.c, absent |-> FALSE, requests |-> 2,
                  details |->
                     [tmdb_id |-> m.result.id,
                      year |-> ReleaseYear(m.result),
                      genres |-> Get(m.result, "genres", <<>>),
                      rating |-> Get(m.result, "vote_average", NoRating),
                      popularity |-> Get(m.result, "popularity", 0),
                      cast |-> IF hasCast
                               THEN SubSeq(cr.result.cast, 1, Min(10, Len(cr.result.cast)))
                               ELSE <<>>,
                      director |-> IF hasCrew THEN Director(cr.result.crew) ELSE None]]

(***************************************************************************)
(* Exact arithmetic for the scores: q = [n, d] is n / d, d > 0.            *)
(***************************************************************************)
Rat(n, d) == [n |-> n, d |-> d]
RLeq(a, b) == a.n * b.d <= b.n * a.d
RLess(a, b) == a.n * b.d < b.n * a.d
REq(a, b) == a.n * b.d = b.n * a.d
RMin(a, b) == IF RLeq(a, b) THEN a ELSE b
RMax(a, b) == IF RLeq(a, b) THEN b ELSE a
Abs(x) == IF x >= 0 THEN x ELSE -x
RECURSIVE GCD(_, _)
GCD(x, y) == IF y = 0 THEN x ELSE GCD(y, x % y)
Lowest(n, d) == LET g == GCD(Abs(n), d) IN Rat(n \div g, d \div g)
RAdd(a, b) == Lowest(a.n * b.d + b.n * a.d, a.d * b.d)
RScale(a, k, m) == LET g == GCD(k, m) IN Lowest(a.n * (k \div g), a.d * (m \div g))   \* a * k / m

(***************************************************************************)
(* _build_user_profile (src/recommendation_engine.py:64-111).  Ratings     *)
(* are in tenths.                                                          *)
(***************************************************************************)
HIGH_RATING == 40

\* m.get('rating'): None and 0 are false
HasRating(m) == m.rating # NoRating /\ m.rating # 0

RECURSIVE SumSeq(_, _)
SumSeq(seq, i) == IF i > Len(seq) THEN 0 ELSE seq[i] + SumSeq(seq, i + 1)

IsHighlyRatedStrict(m) == HasRating(m) /\ m.rating > HIGH_RATING

\* line 67
IsHighlyRated(m) == HasRating(m) /\ m.rating >= HIGH_RATING

\* lines 67-71
HighlyRated(movies) ==
    LET hr == SelectSeq(movies, IsHighlyRated)
    IN  IF hr = <<>> THEN movies ELSE hr

\* lines 74-77: Counter of the genres of the subset
GenreCounts(hr) ==
    LET occ == UNION {{<<i, j>> : j \in 1..Len(hr[i].genres)} : i \in 1..Len(hr)}
        gs == {hr[p[1]].genres[p[2]] : p \in occ}
    IN  [g \in gs |-> Cardinality({p \in occ : hr[p[1]].genres[p[2]] = g})]

BuildUserProfile(movies) ==
    LET hr == HighlyRated(movies)
        counts == GenreCounts(hr)
        rated == SelectSeq(movies, HasRating)
    IN  [genre_counts |-> counts,
         total_genres |-> SumSeq([i \in 1..Len(hr) |-> Len(hr[i].genres)], 1),
         avg_rating |-> IF rated = <<>> THEN Rat(50, 1)
                        ELSE Rat(SumSeq([i \in 1..Len(rated) |-> rated[i].rating], 1),
                                 Len(rated)),
         decade_preferences |->
             {(hr[i].year \div 10) * 10 : i \in {k \in 1..Len(hr) : hr[k].year # NoYear}},
         highly_rated_count |-> Len(hr)]

(***************************************************************************)
(* The four sub-scores (src/recommendation_engine.py:185-253), exact.      *)
(***************************************************************************)
GENRE_BOOST_TENTHS == 15
POPULARITY_CEILING == 500

\* line 191 (and 268): the names of the genre ids the table knows
RECURSIVE GenreNames(_, _)
GenreNames(genre_ids, i) ==
    IF i > Len(genre_ids) THEN <<>>
    ELSE IF genre_ids[i] \in DOMAIN GenreMap
         THEN <<GenreMap[genre_ids[i]]>> \o GenreNames(genre_ids, i + 1)
         ELSE GenreNames(genre_ids, i + 1)

MatchScore10Unboosted(genre, profile) ==
    IF genre \in DOMAIN profile.genre_counts
    THEN 10 * profile.genre_counts[genre]
    ELSE profile.total_genres

\* lines 198-203, times 10 * total_genres: weight * 1.5 is 15 * count, 0.1 is total
MatchScore10(genre, profile) ==
    IF genre \in DOMAIN profile.genre_counts
    THEN GENRE_BOOST_TENTHS * profile.genre_counts[genre]
    ELSE profile.total_genres

\* _calculate_genre_score: genre_preferences is empty iff total_genres = 0 (line 77)
CalculateGenreScore(genre_ids, profile) ==
    LET genres == GenreNames(genre_ids, 1)
    IN  IF genre_ids = <<>> \/ profile.total_genres = 0 \/ genres = <<>>
        THEN Rat(50, 1)
        ELSE LET matches == [i \in 1..Len(genres) |-> MatchScore10(genres[i], profile)]
             IN  RMin(Rat(10 * SumSeq(matches, 1), profile.total_genres * Len(genres)),
                      Rat(100, 1))

CalculateRatingScoreNoNeutral(movie_rating, user_avg_rating) ==
    LET diff == Rat(Abs(movie_rating * user_avg_rating.d - user_avg_rating.n),
                    user_avg_rating.d)
    IN  RMax(Rat(0, 1), RAdd(Rat(100, 1), Rat(-diff.n, diff.d)))

\* _calculate_rating_score: ratings in tenths, so diff * 10 is the difference in tenths
CalculateRatingScore(movie_rating, user_avg_rating) ==
    IF movie_rating = 0 THEN Rat(50, 1)
    ELSE LET diff == Rat(Abs(movie_rating * user_avg_rating.d - user_avg_rating.n),
                         user_avg_rating.d)
         IN  RMax(Rat(0, 1), RAdd(Rat(100, 1), Rat(-diff.n, diff.d)))

CalculatePopularityScoreNoClamp(popularity) ==
    IF popularity = 0 THEN Rat(50, 1)
    ELSE Rat(popularity * 100, POPULARITY_CEILING)

\* _calculate_popularity_score
CalculatePopularityScore(popularity) ==
    IF popularity = 0 THEN Rat(50, 1)
    ELSE RMin(Rat(popularity * 100, POPULARITY_CEILING), Rat(100, 1))

\* _calculate_recency_score
CalculateRecencyScore(year, decade_preferences, current_year) ==
    IF year = NoYear THEN Rat(50, 1)
    ELSE IF (year \div 10) * 10 \in decade_preferences THEN Rat(80, 1)
    ELSE IF current_year - year < 5 THEN Rat(70, 1)
    ELSE IF current_year - year < 10 THEN Rat(60, 1)
    ELSE Rat(50, 1)

TotalScoreSwapped(g, r, p, y) ==
    RAdd(RAdd(RScale(g, 30, 100), RScale(r, 40, 100)),
         RAdd(RScale(p, 20, 100), RScale(y, 10, 100)))

\* lines 160-165
TotalScore(g, r, p, y) ==
    RAdd(RAdd(RScale(g, 40, 100), RScale(r, 30, 100)),
         RAdd(RScale(p, 20, 100), RScale(y, 10, 100)))

\* round(total_score, 1), in tenths; an exact tie goes to the even tenth
Round1(q) ==
    LET fl == (q.n * 10) \div q.d
        twice == 2 * ((q.n * 10) % q.d)
    IN  IF twice < q.d THEN fl
        ELSE IF twice > q.d THEN fl + 1
        ELSE IF fl % 2 = 0 THEN fl ELSE fl + 1

RatingClauseBoth(movie_rating) ==
    (IF movie_rating >= 80 THEN <<[clause |-> "Highly rated by critics"]>> ELSE <<>>)
       \o (IF movie_rating >= 70 THEN <<[clause |-> "Well-reviewed"]>> ELSE <<>>)

\* lines 275-279
RatingClause(movie_rating) ==
    IF movie_rating >= 80 THEN <<[clause |-> "Highly rated by critics"]>>
    ELSE IF movie_rating >= 70 THEN <<[clause |-> "Well-reviewed"]>>
    ELSE <<>>

\* _generate_reasoning (lines 255-292): the clauses, in order; none -> the fallback
GenerateReasoning(candidate, genre_score, popularity_score, profile, current_year) ==
    LET genres == GenreNames(Get(candidate, "genre_ids", <<>>), 1)
        InPrefs(g) == g \in DOMAIN profile.genre_counts
        matching == SelectSeq(genres, InPrefs)
        c1 == IF matching # <<>> /\ RLess(Rat(70, 1), genre_score)
              THEN <<[clause |-> "Matches your love for",
                      genres |-> SubSeq(matching, 1, Min(2, Len(matching)))]>>
              ELSE <<>>
        c2 == RatingClause(Get(candidate, "rating", 0))
        c3 == IF RLess(Rat(70, 1), popularity_score) THEN <<[clause |-> "Popular choice"]>>
              ELSE <<>>
        c4 == IF Get(candidate, "year", NoYear) # NoYear
                    /\ current_year - Get(candidate, "year", NoYear) < 3
              THEN <<[clause |-> "Recent release"]>>
              ELSE <<>>
        reasons == c1 \o c2 \o c3 \o c4
    IN  IF reasons = <<>> THEN <<[clause |-> "Recommended based on your preferences"]>>
        ELSE reasons

\* lines 135-181: one candidate's sub-scores, score and reasoning
ScoreCandidate(candidate, profile, current_year) ==
    LET g == CalculateGenreScore(Get(candidate, "genre_ids", <<>>), profile)
        r == CalculateRatingScore(Get(candidate, "rating", 0), profile.avg_rating)
        p == CalculatePopularityScore(Get(candidate, "popularity", 0))
        y == CalculateRecencyScore(Get(candidate, "year", NoYear),
                                   profile.decade_preferences, current_year)
        total == TotalScore(g, r, p, y)
    IN  [tmdb_id |-> candidate.tmdb_id,
         score |-> Round1(total),
         reasoning |-> GenerateReasoning(candidate, g, p, profile, current_year),
         genre_score |-> g, rating_score |-> r, popularity_score |-> p,
         recency_score |-> y, total_score |-> total]

ScoreCandidates(candidates, profile, current_year) ==
    [i \in 1..Len(candidates) |-> ScoreCandidate(candidates[i], profile, current_year)]

(***************************************************************************)
(* generate_recommendations (src/recommendation_engine.py:23-62).          *)
(***************************************************************************)
MIN_HISTORY == 5
POOL_LIMIT == 1000

TooFewOffByOne(movies) == Len(movies) < MIN_HISTORY - 1

\* line 28
TooFew(movies) == Len(movies) < MIN_HISTORY

SeenFirstOnly(candidate, movies) == movies # <<>> /\ candidate.tmdb_id = movies[1].tmdb_id

\* lines 119-120: c['tmdb_id'] in user_tmdb_ids
Seen(candidate, movies) ==
    candidate.tmdb_id \in {movies[i].tmdb_id : i \in 1..Len(movies)}

\* _get_candidate_movies
GetCandidateMovies(c, movies, prov) ==
    LET pop == GetPopularMovies(c, POOL_LIMIT, prov)
        Unseen(cand) == ~Seen(cand, movies)
    IN  [c |-> pop.c, pool |-> pop.result, requested |-> pop.requested,
         candidates |-> SelectSeq(pop.result, Unseen)]

TopWithSubstitutes(scored, num, i, taken, prov) == i > Len(scored) \/ Len(taken) >= num

\* line 49: the loop of lines 53-60 runs over scored_candidates[:num_recommendations]
EnrichDone(scored, num, i, taken, prov) == i > Min(num, Len(scored))

\* lines 52-60
RECURSIVE EnrichLoop(_, _, _, _, _, _, _)
EnrichLoop(c, scored, num, i, taken, asked, prov) ==
    IF EnrichDone(scored, num, i, taken, prov)
    THEN [c |-> c, result |-> taken, asked |-> asked]
    ELSE LET d == GetMovieDetails(c, scored[i].tmdb_id, prov)
             rec == [match_score |-> scored[i].score, reasoning |-> scored[i].reasoning]
                       @@ d.details
         IN  EnrichLoop(d.c, scored, num, i + 1,
                        IF d.absent THEN taken ELSE Append(taken, rec),
                        Append(asked, [id |-> scored[i].tmdb_id, absent |-> d.absent]), prov)

GenerateRecommendations(c, movies, num, pprov, dprov, current_year) ==
    IF TooFew(movies)
    THEN [c |-> c, raised |-> TRUE, result |-> <<>>, popular_calls |-> 0, pool |-> <<>>,
          requested |-> <<>>, candidates |-> <<>>, scored |-> <<>>, ranked |-> <<>>,
          asked |-> <<>>]
    ELSE LET profile == BuildUserProfile(movies)
             cands == GetCandidateMovies(c, movies, pprov)
             scored == ScoreCandidates(cands.candidates, profile, current_year)
             ranked == SortDesc(scored, "score")
             en == EnrichLoop(cands.c, ranked, num, 1, <<>>, <<>>, dprov)
         IN  [c |-> en.c, raised |-> FALSE, result |-> en.result,
              popular_calls |-> 1, pool |-> cands.pool, requested |-> cands.requested,
              candidates |-> cands.candidates, scored |-> scored, ranked |-> ranked,
              asked |-> en.asked]

(***************************************************************************)
(* EngineSpec: generate_recommendations on a stored history, against a     *)
(* provider with n listed movies.                                          *)
(***************************************************************************)
MaxRecCalls == 1
MaxHistory == 6
IdSpan == 2 * MaxHistory
HistoryLens == {0, MIN_HISTORY - 1, MIN_HISTORY, MaxHistory}
EngineCatalogs == {0, 9, 23}
Counts == {0, 2, 10}
HistStrides == {0, 1, 5}
HistOffsets == {0, 6}
RatingPatterns ==
    << <<NoRating>>,
       <<45, 30, 0, NoRating, 50, 40>>,
       <<90, 85, 0, 95>> >>
CurrentYears == {2026}
\* which detail requests the provider fails, and how
DetailFaults == {[mod |-> 0, script |-> "down"], [mod |-> 2, script |-> "down"],
                 [mod |-> 1, script |-> "emptyjson"]}
PoolInjections == {[page |-> 0, script |-> "ok"], [page |-> 2, script |-> "flaky"]}

\* app.add_movie (src/app.py:91-102): the stored entry of a confirmed movie
HistoryEntry(id, rating) ==
    [tmdb_id |-> id, year |-> RawYear(id), genres |-> MovieBody(id).genres,
     rating |-> rating]

History(len, stride, offset, pattern) ==
    [i \in 1..len |->
        HistoryEntry(((i * stride + offset) % IdSpan) + 1,
                     RatingPatterns[pattern][((i - 1) % Len(RatingPatterns[pattern])) + 1])]

\* the ids whose details the provider fails: none, all, or the even ones
FailIds(mod) == IF mod = 0 THEN {} ELSE {id \in 1..(PAGE_SIZE * 2) : id % mod = 0}

EngineInit ==
    /\ \E n \in EngineCatalogs, y \in CurrentYears, warm \in BOOLEAN :
          /\ env = [kind |-> "engine", n |-> n, tailKind |-> "error", current_year |-> y]
          /\ cache = IF warm THEN DictSet(EmptyDict, PopularKey(1), PageBody(n, 1))
                      ELSE EmptyDict
          /\ cache_timestamps = IF warm THEN DictSet(EmptyDict, PopularKey(1), 0)
                                 ELSE EmptyDict
    /\ \E len \in HistoryLens, stride \in HistStrides, offset \in HistOffsets,
          pattern \in 1..Len(RatingPatterns) :
          user_movies = History(len, stride, offset, pattern)
    /\ now = 0
    /\ pc = [t \in Threads |-> "idle"]
    /\ req = [t \in Threads |-> AnyRequest]
    /\ attempt = [t \in Threads |-> 0]
    /\ data = [t \in Threads |-> None]
    /\ t_check = [t \in Threads |-> 0]
    /\ snap = [t \in Threads |-> NoSnap]
    /\ result = [t \in Threads |-> None]
    /\ log = [t \in Threads |-> <<>>]
    /\ ncalls = 0
    /\ nticks = 0
    /\ op = NoOp

Recommend(num, inj, fault) ==
    /\ ncalls < MaxRecCalls
    /\ ncalls' = ncalls + 1
    /\ \E r \in {GenerateRecommendations(
                    TheClient, user_movies, num,
                    [n |-> env.n, tailKind |-> env.tailKind,
                     failPage |-> inj.page, script |-> inj.script],
                    [failIds |-> FailIds(fault.mod), script |-> fault.script],
                    env.current_year)} :
           /\ ClientBecomes(r.c)
           /\ op' = [name |-> "generate_recommendations", count |-> num,
                     history |-> user_movies,
                     before |-> [cache |-> cache, ts |-> cache_timestamps],
                     raised |-> r.raised, result |-> r.result,
                     popular_calls |-> r.popular_calls, pool |-> r.pool,
                     requested |-> r.requested, candidates |-> r.candidates,
                     scored |-> r.scored, ranked |-> r.ranked, asked |-> r.asked,
                     failIds |-> FailIds(fault.mod)]
    /\ UNCHANGED <<threadVars, nticks, env, user_movies>>

EngineNext ==
    \E num \in Counts, inj \in PoolInjections, fault \in DetailFaults :
        Recommend(num, inj, fault)

EngineSpec == EngineInit /\ [][EngineNext]_vars

(***************************************************************************)
(* Claims about generate_recommendations.                                  *)
(***************************************************************************)
IsRecOp == op.name = "generate_recommendations"
Ran == IsRecOp /\ ~op.raised
HistoryIds == {op.history[i].tmdb_id : i \in 1..Len(op.history)}
InRange(q) == RLeq(Rat(0, 1), q) /\ RLeq(q, Rat(100, 1))

\* C5: with fewer than 5 history entries generate_recommendations raises the
\* insufficient-history condition before anything else: get_popular_movies and
\* get_movie_details are not invoked, no request is attempted, nothing is scored and
\* the cache is as it was; with 5 or more entries it does not raise.
C5_FailFast ==
    IsRecOp =>
        /\ op.raised <=> Len(op.history) < 5
        /\ op.raised =>
              /\ op.popular_calls = 0 /\ op.requested = <<>> /\ op.asked = <<>>
              /\ op.scored = <<>> /\ op.result = <<>>
              /\ cache = op.before.cache /\ cache_timestamps = op.before.ts

C5_Witness ==
    /\ IsRecOp /\ op.raised /\ Len(op.history) = 4
    /\ op.before.cache # EmptyDict /\ cache = op.before.cache

\* C6: after filtering, no candidate has the id of a history entry, every pool entry
\* whose id is not in the history is kept, in the pool's order, and no scored
\* candidate or recommendation has a history id.
C6_ExcludesHistory ==
    Ran =>
        LET pool == op.pool
            cands == op.candidates
            keep == {i \in 1..Len(pool) : pool[i].tmdb_id \notin HistoryIds}
        IN  /\ \A j \in 1..Len(cands) : cands[j].tmdb_id \notin HistoryIds
            /\ Len(cands) = Cardinality(keep)
            /\ \A i \in keep : cands[Cardinality({k \in keep : k <= i})] = pool[i]
            /\ \A j \in 1..Len(op.scored) : op.scored[j].tmdb_id \notin HistoryIds
            /\ \A j \in 1..Len(op.result) : op.result[j].tmdb_id \notin HistoryIds

C6_Witness ==
    /\ Ran
    /\ \E i, j \in 1..Len(op.pool) :
          /\ i < j
          /\ op.pool[i].tmdb_id \in HistoryIds
          /\ op.pool[j].tmdb_id \notin HistoryIds
          /\ \E k \in 1..Len(op.history) :
                op.history[k].tmdb_id = op.pool[j].tmdb_id + MaxHistory
                   \/ op.history[k].genres = MovieBody(op.pool[j].tmdb_id).genres
    /\ Cardinality(HistoryIds) > 1
    /\ op.scored # <<>>

C8_DropsWithoutSubstitute ==
    Ran =>
        LET k == IF op.count <= Len(op.ranked) THEN op.count ELSE Len(op.ranked)
            got == {i \in 1..Len(op.asked) : ~op.asked[i].absent}
        IN  /\ Len(op.ranked) = Len(op.scored)
            /\ \A i \in 1..Len(op.scored) : \E j \in 1..Len(op.ranked) : op.ranked[j] = op.scored[i]
            /\ \A i \in 1..(Len(op.ranked) - 1) : op.ranked[i].score >= op.ranked[i + 1].score
            /\ Len(op.asked) = k
            /\ \A i \in 1..Len(op.asked) : op.asked[i].id = op.ranked[i].tmdb_id
            /\ Len(op.result) <= op.count
            /\ Len(op.result) = Cardinality(got)
            /\ \A i \in got :
                  LET rec == op.result[Cardinality({j \in got : j <= i})]
                  IN  /\ rec.tmdb_id = op.ranked[i].tmdb_id
                      /\ rec.match_score = op.ranked[i].score
                      /\ rec.reasoning = op.ranked[i].reasoning

C8_Witness ==
    /\ Ran
    /\ op.count < Len(op.ranked)
    /\ \E i, j \in 1..Len(op.asked) :
          /\ i < j
          /\ op.asked[i].absent /\ op.asked[i].id \in op.failIds
          /\ ~op.asked[j].absent
    /\ Len(op.result) < op.count

(***************************************************************************)
(* ScoreSpec: _build_user_profile on a stored history and the scoring of   *)
(* one candidate record against the profile.  A field of the candidate     *)
(* may be missing.                                                         *)
(***************************************************************************)
MaxScoreCalls == 1

Entry(id, genres, rating, year) ==
    [tmdb_id |-> id, year |-> year, genres |-> genres, rating |-> rating]

ScoreHistories ==
    { << Entry(1, <<"Drama">>, 90, 1994), Entry(2, <<"Drama">>, 80, 1999),
         Entry(3, <<"Comedy">>, 30, 2005), Entry(4, <<"Drama">>, 90, 2010),
         Entry(5, <<"Horror">>, 100, 2012) >>,
      << Entry(1, <<"Drama">>, 90, 1994), Entry(2, <<"Drama">>, 90, 1999),
         Entry(3, <<>>, 90, 2005), Entry(4, <<"Drama">>, 90, NoYear),
         Entry(5, <<"Horror">>, 90, 2012) >>,
      << Entry(1, <<"Drama", "Comedy">>, NoRating, 2021), Entry(2, <<"Comedy">>, NoRating, 2019),
         Entry(3, <<"Anime">>, NoRating, NoYear), Entry(4, <<"Drama">>, NoRating, 2010),
         Entry(5, <<>>, NoRating, 2012) >>,
      << Entry(1, <<"Drama">>, 0, 2023), Entry(2, <<"Comedy", "Horror">>, 30, 1994),
         Entry(3, <<"Comedy">>, 35, 1999), Entry(4, <<"Horror">>, NoRating, 2005),
         Entry(5, <<"Comedy">>, 39, 2010) >>,
      << Entry(1, <<>>, 45, 1994), Entry(2, <<>>, 50, 2024), Entry(3, <<>>, NoRating, 2005),
         Entry(4, <<>>, 40, 2010), Entry(5, <<>>, 100, NoYear) >>,
      << Entry(1, <<"Drama", "Horror">>, 40, 2020), Entry(2, <<"Comedy">>, 39, 1985),
         Entry(3, <<"Drama">>, 0, 1970), Entry(4, <<"Horror", "Comedy", "Drama">>, 100, 2015),
         Entry(5, <<"Drama">>, 75, 2015), Entry(6, <<"Drama">>, 10, 1960) >>,
      << Entry(1, <<"Drama">>, 0, 1994), Entry(1, <<"Drama">>, 0, 1994),
         Entry(2, <<"Horror">>, NoRating, 2001), Entry(3, <<"Comedy">>, 0, 2003),
         Entry(4, <<"Drama">>, NoRating, 2004) >> }

\* a field of the candidate: missing, or present with the value v
Missing == [has |-> FALSE, v |-> 0]
MissingList == [has |-> FALSE, v |-> <<>>]
Present(v) == [has |-> TRUE, v |-> v]
CandGenreIds == {MissingList, Present(<<>>), Present(<<18>>), Present(<<35>>), Present(<<18, 27>>),
                 Present(<<424242>>), Present(<<18, 424242>>), Present(<<35, 18, 27>>)}
CandRatings == {Missing} \cup {Present(v) : v \in {0, 55, 70, 85, 100}}
CandPopularities == {Missing} \cup {Present(v) : v \in {0, 1, 350, 355, 600}}
CandYears == {Missing} \cup {Present(v) : v \in {NoYear, 2025, 2023, 2022, 2021, 2019, 2014, 1994}}
ScoreYears == {2024}

WithField(m, field, f) == IF f.has THEN With(m, field, f.v) ELSE m

CandidateOf(g, r, p, y) ==
    WithField(WithField(WithField(WithField([tmdb_id |-> 100], "genre_ids", g),
                                  "rating", r), "popularity", p), "year", y)

ScoreInit ==
    /\ \E g \in CandGenreIds, r \in CandRatings, p \in CandPopularities, y \in CandYears,
          cy \in ScoreYears :
          env = [kind |-> "score", candidate |-> CandidateOf(g, r, p, y), current_year |-> cy]
    /\ user_movies \in ScoreHistories
    /\ cache = EmptyDict
    /\ cache_timestamps = EmptyDict
    /\ now = 0
    /\ pc = [t \in Threads |-> "idle"]
    /\ req = [t \in Threads |-> AnyRequest]
    /\ attempt = [t \in Threads |-> 0]
    /\ data = [t \in Threads |-> None]
    /\ t_check = [t \in Threads |-> 0]
    /\ snap = [t \in Threads |-> NoSnap]
    /\ result = [t \in Threads |-> None]
    /\ log = [t \in Threads |-> <<>>]
    /\ ncalls = 0
    /\ nticks = 0
    /\ op = NoOp

\* lines 34 and 44 of generate_recommendations, for one candidate
ScoreCall ==
    /\ ncalls < MaxScoreCalls
    /\ ncalls' = ncalls + 1
    /\ \E profile \in {BuildUserProfile(user_movies)} :
          op' = [name |-> "score", history |-> user_movies, candidate |-> env.candidate,
                 current_year |-> env.current_year, profile |-> profile,
                 scored |-> ScoreCandidate(env.candidate, profile, env.current_year)]
    /\ UNCHANGED <<cache, cache_timestamps, now, threadVars, nticks, env, user_movies>>

ScoreNext == ScoreCall

ScoreSpec == ScoreInit /\ [][ScoreNext]_vars

(***************************************************************************)
(* Claims about the profile and the scores of one candidate.               *)
(***************************************************************************)
IsScoreOp == op.name = "score"
Has(field) == field \in DOMAIN op.candidate

\* 0.40 * genre + 0.30 * ratingSimilarity + 0.20 * popularity + 0.10 * recency
WeightedSum(sc) ==
    Lowest(40 * sc.genre_score.n * sc.rating_score.d * sc.popularity_score.d * sc.recency_score.d
             + 30 * sc.rating_score.n * sc.genre_score.d * sc.popularity_score.d * sc.recency_score.d
             + 20 * sc.popularity_score.n * sc.genre_score.d * sc.rating_score.d * sc.recency_score.d
             + 10 * sc.recency_score.n * sc.genre_score.d * sc.rating_score.d * sc.popularity_score.d,
           100 * sc.genre_score.d * sc.rating_score.d * sc.popularity_score.d * sc.recency_score.d)

\* the candidate and the profile of the worked example
IsExample ==
    /\ IsScoreOp
    /\ Has("genre_ids") /\ op.candidate.genre_ids = <<18>>
    /\ Has("rating") /\ op.candidate.rating = 85
    /\ Has("popularity") /\ op.candidate.popularity = 600
    /\ Has("year") /\ op.candidate.year # NoYear /\ op.current_year - op.candidate.year < 5
    /\ op.current_year - op.candidate.year >= 0
    /\ (op.candidate.year \div 10) * 10 \notin op.profile.decade_preferences
    /\ REq(op.profile.avg_rating, Rat(90, 1))
    /\ "Drama" \in DOMAIN op.profile.genre_counts
    /\ 4 * op.profile.genre_counts["Drama"] = 3 * op.profile.total_genres

\* C11: the score is the weighted sum 0.40 / 0.30 / 0.20 / 0.10 of the four
\* sub-scores, rounded to one decimal place (the nearest tenth); the worked example
\* gets the sub-scores 100, 95, 100, 70 and the score 95.5.
C11_WeightedTotal ==
    IsScoreOp =>
        LET sc == op.scored
            t == WeightedSum(sc)
        IN  /\ 2 * Abs(10 * t.n - sc.score * t.d) <= t.d
            /\ IsExample =>
                  /\ REq(sc.genre_score, Rat(100, 1))
                  /\ REq(sc.rating_score, Rat(95, 1))
                  /\ REq(sc.popularity_score, Rat(100, 1))
                  /\ REq(sc.recency_score, Rat(70, 1))
                  /\ sc.score = 955

C11_Witness == IsExample /\ op.scored.score = 955

\* max(0, 100 - 10 * |rating - average|), rating and average in tenths
RatingFormula(rating, avg) ==
    LET v == Rat(100 * avg.d - Abs(rating * avg.d - avg.n), avg.d)
    IN  IF v.n < 0 THEN Rat(0, 1) ELSE v

\* min(100, popularity / 500 * 100)
PopularityFormula(popularity) ==
    IF popularity >= 500 THEN Rat(100, 1) ELSE Rat(popularity, 5)

PopularityAsClaimed ==
    IF ~Has("popularity") \/ op.candidate.popularity = 0
    THEN REq(op.scored.popularity_score, Rat(50, 1))
    ELSE REq(op.scored.popularity_score, PopularityFormula(op.candidate.popularity))

\* C12 as stated: the rating-similarity sub-score is 50 when the candidate's
\* rating is absent and max(0, 100 - 10 * |rating - average|) otherwise; the
\* popularity sub-score is 50 when the popularity is absent or zero and
\* min(100, popularity / 500 * 100) otherwise.
C12_NeutralOnlyIfAbsent ==
    IsScoreOp =>
        /\ IF ~Has("rating")
           THEN REq(op.scored.rating_score, Rat(50, 1))
           ELSE REq(op.scored.rating_score,
                    RatingFormula(op.candidate.rating, op.profile.avg_rating))
        /\ PopularityAsClaimed

\* C12 amended: the rating-similarity sub-score is 50 when the candidate's rating
\* is absent or zero, and max(0, 100 - 10 * |rating - average|) otherwise; the
\* popularity sub-score is as stated; each whatever the other field is.
C12_NeutralIfAbsentOrZero ==
    IsScoreOp =>
        /\ IF ~Has("rating") \/ op.candidate.rating = 0
           THEN REq(op.scored.rating_score, Rat(50, 1))
           ELSE REq(op.scored.rating_score,
                    RatingFormula(op.candidate.rating, op.profile.avg_rating))
        /\ PopularityAsClaimed

\* a zero rating scored 50 against an average other than 5.0, next to a popularity
\* that is present and scored by the formula
C12_Witness ==
    /\ IsScoreOp
    /\ Has("rating") /\ op.candidate.rating = 0
    /\ ~REq(op.profile.avg_rating, Rat(50, 1))
    /\ REq(op.scored.rating_score, Rat(50, 1))
    /\ Has("popularity") /\ op.candidate.popularity = 350
    /\ REq(op.scored.popularity_score, Rat(70, 1))

\* the history entries with a user rating of 4.0 or more, or the whole history
RatedSubset ==
    LET idx == {i \in 1..Len(op.history) : op.history[i].rating >= 40}
    IN  IF idx = {} THEN 1..Len(op.history) ELSE idx

RECURSIVE OccIn(_, _, _)
OccIn(genres, g, j) ==
    IF j > Len(genres) THEN 0
    ELSE (IF genres[j] = g THEN 1 ELSE 0) + OccIn(genres, g, j + 1)

RECURSIVE OccOver(_, _)
OccOver(idx, g) ==
    IF idx = {} THEN 0
    ELSE LET i == CHOOSE k \in idx : TRUE
         IN  OccIn(op.history[i].genres, g, 1) + OccOver(idx \ {i}, g)

RECURSIVE AllOcc(_)
AllOcc(idx) ==
    IF idx = {} THEN 0
    ELSE LET i == CHOOSE k \in idx : TRUE
         IN  Len(op.history[i].genres) + AllOcc(idx \ {i})

SubsetGenres == UNION {{op.history[i].genres[j] : j \in 1..Len(op.history[i].genres)} : i \in RatedSubset}

RECURSIVE SumOver(_, _)
SumOver(f, dom) ==
    IF dom = {} THEN 0
    ELSE LET x == CHOOSE k \in dom : TRUE IN f[x] + SumOver(f, dom \ {x})

IsExampleHistory ==
    /\ IsScoreOp
    /\ Len(op.history) = 5
    /\ [i \in 1..5 |-> op.history[i].genres]
          = << <<"Drama">>, <<"Drama">>, <<"Comedy">>, <<"Drama">>, <<"Horror">> >>
    /\ [i \in 1..5 |-> op.history[i].rating] = <<90, 80, 30, 90, 100>>

\* C13: the weight of genre g is its occurrences in the subset over all genre
\* occurrences in the subset (the entries rated 4.0 or more, or the whole history
\* when there is none); the mapping is empty when the subset has no genre
\* occurrence, the weights of a non-empty mapping sum to 1, and the example history
\* gives exactly {Drama: 0.75, Horror: 0.25}.
C13_GenreWeights ==
    IsScoreOp =>
        LET counts == op.profile.genre_counts
            total == op.profile.total_genres
        IN  /\ DOMAIN counts = SubsetGenres
            /\ total = AllOcc(RatedSubset)
            /\ \A g \in DOMAIN counts :
                  counts[g] * AllOcc(RatedSubset) = OccOver(RatedSubset, g) * total
                     /\ counts[g] > 0
            /\ AllOcc(RatedSubset) = 0 => DOMAIN counts = {}
            /\ DOMAIN counts # {} => SumOver(counts, DOMAIN counts) = total
            /\ IsExampleHistory =>
                  /\ DOMAIN counts = {"Drama", "Horror"}
                  /\ 4 * counts["Drama"] = 3 * total
                  /\ 4 * counts["Horror"] = total

C13_Witness ==
    /\ IsExampleHistory
    /\ op.profile.genre_counts = [g \in {"Drama", "Horror"} |-> IF g = "Drama" THEN 3 ELSE 1]
    /\ op.profile.total_genres = 4

\* C16: the profile's average rating is the mean of the ratings of all history
\* entries that carry a rating, a rating of 0 included, over the whole history;
\* it is 5.0 when no entry carries one.
C16_AverageRating ==
    IsScoreOp =>
        LET carried == {i \in 1..Len(op.history) : op.history[i].rating # NoRating}
            ratings == [i \in carried |-> op.history[i].rating]
        IN  IF carried = {}
            THEN REq(op.profile.avg_rating, Rat(50, 1))
            ELSE REq(op.profile.avg_rating, Rat(SumOver(ratings, carried), Cardinality(carried)))

\* The same, with a rating of 0 taken as no rating.
C16_AverageOfNonZeroRatings ==
    IsScoreOp =>
        LET carried == {i \in 1..Len(op.history) :
                           op.history[i].rating # NoRating /\ op.history[i].rating # 0}
            ratings == [i \in carried |-> op.history[i].rating]
        IN  IF carried = {}
            THEN REq(op.profile.avg_rating, Rat(50, 1))
            ELSE REq(op.profile.avg_rating, Rat(SumOver(ratings, carried), Cardinality(carried)))

\* the names the 19-entry table gives the candidate's genre ids
ResolvedGenres ==
    LET ids == IF Has("genre_ids") THEN op.candidate.genre_ids ELSE <<>>
        Known(gid) == gid \in DOMAIN GenreMap
        known == SelectSeq(ids, Known)
    IN  [i \in 1..Len(known) |-> GenreMap[known[i]]]

\* min(100, 100 * average over the resolved genres of (1.5 * weight, or 0.1)),
\* the weight being count / total; with an empty mapping every genre counts 0.1
GenreFormula ==
    LET counts == op.profile.genre_counts
        total == op.profile.total_genres
        n == Len(ResolvedGenres)
        \* twenty times each contribution, times total (times 1 for an empty mapping)
        t == IF total = 0 THEN 1 ELSE total
        part == [i \in 1..n |-> IF ResolvedGenres[i] \in DOMAIN counts
                                THEN 30 * counts[ResolvedGenres[i]] ELSE 2 * t]
        v == Rat(5 * SumSeq(part, 1), t * n)
    IN  IF v.n >= 100 * v.d THEN Rat(100, 1) ELSE v

\* C15 as stated: the genre sub-score is 50 when no genre id of the candidate
\* resolves, and the formula for every candidate with a resolved genre and every
\* preference mapping, the empty one included.
C15_GenreScoreAnyMapping ==
    IsScoreOp =>
        IF ResolvedGenres = <<>>
        THEN REq(op.scored.genre_score, Rat(50, 1))
        ELSE REq(op.scored.genre_score, GenreFormula)

\* C15 amended: the genre sub-score is 50 when no genre id of the candidate
\* resolves or the preference mapping is empty, and the formula otherwise.
C15_GenreScoreNonEmptyMapping ==
    IsScoreOp =>
        IF ResolvedGenres = <<>> \/ DOMAIN op.profile.genre_counts = {}
        THEN REq(op.scored.genre_score, Rat(50, 1))
        ELSE REq(op.scored.genre_score, GenreFormula)

\* a resolved genre against an empty mapping scored 50
C15_Witness ==
    /\ IsScoreOp
    /\ ResolvedGenres = <<"Drama", "Horror">>
    /\ DOMAIN op.profile.genre_counts = {}
    /\ REq(op.scored.genre_score, Rat(50, 1))

\* an unmapped id next to a resolved one, a preferred genre next to another
C15_WitnessFormula ==
    /\ IsScoreOp
    /\ Has("genre_ids") /\ Len(op.candidate.genre_ids) > Len(ResolvedGenres)
    /\ ResolvedGenres # <<>>
    /\ DOMAIN op.profile.genre_counts # {}
    /\ ~REq(op.scored.genre_score, Rat(50, 1))
    /\ ~REq(op.scored.genre_score, Rat(100, 1))

\* the position of a clause in the fixed order
ClauseRank(c) ==
    CASE c = "Matches your love for" -> 1
      [] c = "Highly rated by critics" -> 2
      [] c = "Well-reviewed" -> 2
      [] c = "Popular choice" -> 3
      [] c = "Recent release" -> 4
      [] OTHER -> 0

Says(c) == \E i \in 1..Len(op.scored.reasoning) : op.scored.reasoning[i].clause = c

MatchingGenres ==
    LET InMapping(g) == g \in DOMAIN op.profile.genre_counts
    IN  SelectSeq(ResolvedGenres, InMapping)

RawRating == IF Has("rating") THEN op.candidate.rating ELSE 0

C18_WitnessFallback ==
    /\ IsScoreOp
    /\ Has("year") /\ op.current_year - op.candidate.year = 3
    /\ Says("Recommended based on your preferences")

\* where a stable descending sort puts the i-th scored candidate
StablePlace(i) ==
    Cardinality({j \in 1..Len(op.scored) : op.scored[j].score > op.scored[i].score})
       + Cardinality({j \in 1..i : op.scored[j].score = op.scored[i].score})

\* C17: the candidates chosen for enrichment are the first `count` of the scored
\* list sorted by score descending; the scored list is in filtered-pool order,
\* the sort is stable (candidates of equal score keep their pool order), and no
\* candidate left out has a strictly higher score than a chosen one.
C17_StableTopCount ==
    Ran =>
        LET k == IF op.count <= Len(op.ranked) THEN op.count ELSE Len(op.ranked)
        IN  /\ Len(op.scored) = Len(op.candidates)
            /\ \A i \in 1..Len(op.scored) : op.scored[i].tmdb_id = op.candidates[i].tmdb_id
            /\ Len(op.ranked) = Len(op.scored)
            /\ \A i \in 1..Len(op.scored) : op.ranked[StablePlace(i)] = op.scored[i]
            /\ Len(op.asked) = k
            /\ \A i \in 1..k : op.asked[i].id = op.ranked[i].tmdb_id
            /\ \A i \in 1..k : \A j \in (k + 1)..Len(op.ranked) :
                  op.ranked[j].score <= op.ranked[i].score

\* a tie across the cut: the last chosen and the first left out have the same
\* score, and the sort moved a later candidate of the pool ahead of an earlier one
C17_Witness ==
    /\ Ran
    /\ op.count > 0
    /\ op.count < Len(op.ranked)
    /\ op.ranked[op.count].score = op.ranked[op.count + 1].score
    /\ op.ranked[op.count].tmdb_id # op.ranked[op.count + 1].tmdb_id
    /\ \E i, j \in 1..Len(op.scored) : i < j /\ op.scored[i].score < op.scored[j].score

(***************************************************************************)
(* C14: sleeps and retries within one call of _make_request.               *)
(***************************************************************************)
IsAttemptAt(l, i) == i \in 1..Len(l) /\ IsAttempt(l[i])
IsSleepAt(l, i) == i \in 1..Len(l) /\ IsSleep(l[i])

ProviderPayloads == {SearchBody(env), ErrorBody}

ReturnedAbsent ==
    /\ IsSearchOp
    /\ op.trace # <<>>
    /\ IsAttempt(op.trace[Len(op.trace)])
    /\ op.trace[Len(op.trace)].status # "200"

\* C19: every cache entry holds, with a timestamp, exactly the payload of a
\* successful provider response for its key, unchanged by the client's
\* operations (no reordering of its result list, no added field), and a
\* request that returned absent leaves no entry for its key.
C19_CacheHoldsRawPayload ==
    /\ DOMAIN cache = DOMAIN cache_timestamps
    /\ \A k \in DOMAIN cache : cache[k] \in ProviderPayloads
    /\ ReturnedAbsent => SearchKey("Heat", op.year) \notin DOMAIN cache

\* the part of C19 about when entries exist: one timestamp per entry, and no
\* entry for the key of a search that returned absent
C19_EntriesOnlyOnSuccess ==
    /\ DOMAIN cache = DOMAIN cache_timestamps
    /\ ReturnedAbsent => SearchKey("Heat", op.year) \notin DOMAIN cache

====
